---- MODULE Spec2Model ----
(***************************************************************************)
(* The poker room server: the in-memory store (MemStorage), the session    *)
(* manager (PokerGameManager) and the socket gateway (registerRoutes).     *)
(* One action per inbound socket event; a handler runs to completion       *)
(* before the next one starts (every await in it resolves in a microtask). *)
(***************************************************************************)
EXTENDS Integers, Sequences, FiniteSets, TLC

\* ------------------------------------------------------------------ bounds
\* A behaviour handles at most MaxIntents inbound socket events.
MaxIntents == 5

\* Handler runs in a behaviour of SpecFill.
MaxFillIntents == 12

\* ------------------------------------------------------- program constants
StartingChips == 1000
RoomMaxPlayers == 6
HandSize == 4
NumSuits == 4
NumValues == 13
CodeLength == 6
NameMinLength == 1
NameMaxLength == 20

\* --------------------------------------------------------------- inputs
Sockets == {"s1", "s2"}

\* What generateRoomCode can return (two of the 36^6 codes).
RoomCodes == {"AAAAAA", "BBBBBB"}

\* roomCode strings a client can send: the two codes and a malformed one.
CodeInputs == RoomCodes \cup {"ABC"}

\* playerName strings a client can send, as character sequences.
LongName == [i \in 1..21 |-> "x"]
NameInputs == {<<>>, <<"A", "n", "n">>, LongName}

\* action strings a client can send; "bet" is outside the schema's enum.
ActionInputs == {"check", "call", "raise", "fold", "all-in", "bet"}

\* amount: <<>> when the payload carries none, <<n>> otherwise.
AmountInputs == {<<>>, <<0>>, <<100>>, <<200>>, <<1100>>}

\* player-action payloads: every amount with raise (the only case that reads
\* it), no amount with the other actions.
ActionPayloads ==
  {[action |-> "raise", amount |-> a] : a \in AmountInputs}
  \cup {[action |-> a, amount |-> <<>>] : a \in ActionInputs \ {"raise"}}

StrLen(s) == IF s = "ABC" THEN 3 ELSE 6

\* ----------------------------------------------------------------- state
VARIABLES
  rooms,            \* MemStorage.rooms: room id -> Room
  players,          \* MemStorage.players: player id -> Player
  playersBySocket,  \* MemStorage.playersBySocket: socket id -> player id
  playersByRoom,    \* MemStorage.playersByRoom: room id -> sequence of player ids
  nextRoomId,       \* number of room ids allocated by randomUUID
  nextPlayerId,     \* number of player ids allocated by randomUUID
  open,             \* sockets whose connection is still up
  groups,           \* socket.io rooms: socket id -> set of group names joined
  events,           \* what the last handler emitted, in order
  handled,          \* number of inbound events handled so far
  ledger,           \* room id -> sum of the updatePlayerBet deltas since the last deal
  shuffling,        \* the shuffleDeck call in progress: its arrays and loop index
  inflight,         \* join-room handlers suspended at an await, in resumption order
  raced             \* the store before the handlers in flight began, and their intents

vars == <<rooms, players, playersBySocket, playersByRoom, nextRoomId,
          nextPlayerId, open, groups, events, handled, ledger, shuffling,
          inflight, raced>>

gatewayVars == <<rooms, players, playersBySocket, playersByRoom, nextRoomId,
                 nextPlayerId, open, groups, events, handled, ledger,
                 inflight, raced>>

storeVars == <<rooms, players, playersBySocket, playersByRoom>>

\* The store as one value, so that the manager's methods are operators on it.
Store == [rooms |-> rooms, players |-> players,
          playersBySocket |-> playersBySocket, playersByRoom |-> playersByRoom]

\* ------------------------------------------------------------- Map helpers
Put(f, k, v) == [x \in (DOMAIN f) \cup {k} |-> IF x = k THEN v ELSE f[x]]
Del(f, k) == [x \in (DOMAIN f) \ {k} |-> f[x]]
Has(f, k) == k \in DOMAIN f
EmptyMap == <<>>

SetMin(S) == CHOOSE x \in S : \A y \in S : x <= y

RECURSIVE SeqSum(_)
SeqSum(s) == IF s = <<>> THEN 0 ELSE Head(s) + SeqSum(Tail(s))

\* ------------------------------------------------------------------- deck
\* A card is its index 0..51 in the order createDeck pushes them:
\* suit CardSuit(c), value CardValue(c); its id string starts with both.
Suits == <<"spades", "hearts", "diamonds", "clubs">>
Values == <<"A", "2", "3", "4", "5", "6", "7", "8", "9", "10", "J", "Q", "K">>
DeckSize == NumSuits * NumValues
CardSuit(c) == Suits[(c \div NumValues) + 1]
CardValue(c) == Values[(c % NumValues) + 1]
CardId(c) == <<CardValue(c), CardSuit(c), c>>

\* A swap that loses the card at i: only the first assignment happens.
SwapOverwrites(d, i, j) == [d EXCEPT ![i + 1] = d[j + 1]]

Swap(d, i, j) == [d EXCEPT ![i + 1] = d[j + 1], ![j + 1] = d[i + 1]]

\* shuffleDeck: for i from length-1 down to 1, swap i with rnd[i] in 0..i.
\* rnd[i] is Math.floor(Math.random() * (i + 1)) of that iteration.
RECURSIVE shuffleLoop(_, _, _)
shuffleLoop(d, i, rnd) ==
  IF i <= 0 THEN d ELSE shuffleLoop(Swap(d, i, rnd[i]), i - 1, rnd)

shuffleDeck(deck, rnd) == shuffleLoop(deck, Len(deck) - 1, rnd)

OrderedDeck == [k \in 1..DeckSize |-> k - 1]

\* The draws of Math.random the model explores for a whole shuffle: always
\* the largest index (no card moves) or always index 0.
RandomDraws == {[i \in 1..(DeckSize - 1) |-> i], [i \in 1..(DeckSize - 1) |-> 0]}

\* The shuffled deck for each of these draws, computed once.
ShuffledDecks == [rnd \in RandomDraws |-> shuffleDeck(OrderedDeck, rnd)]

createDeck(rnd) == ShuffledDecks[rnd]

\* ------------------------------------------------------------- MemStorage
getRoomById(st, id) == IF Has(st.rooms, id) THEN <<id>> ELSE <<>>

\* Array.from(rooms.values()).find(...): the first match in insertion order,
\* which is the order of the ids.
getRoomByCode(st, code) ==
  LET m == {id \in DOMAIN st.rooms : st.rooms[id].code = code}
  IN IF m = {} THEN <<>> ELSE <<SetMin(m)>>

storageCreateRoom(st, id, insertRoom) ==
  [st EXCEPT
     !.rooms = Put(@, id,
        [code |-> insertRoom.code, hostId |-> insertRoom.hostId,
         maxPlayers |-> insertRoom.maxPlayers, currentPlayers |-> 0,
         gameState |-> "waiting", pot |-> 0, currentBet |-> 0,
         round |-> "pre-flop", deck |-> <<>>, communityCards |-> <<>>]),
     !.playersByRoom = Put(@, id, <<>>)]

deleteRoom(st, id) ==
  [st EXCEPT !.rooms = Del(@, id), !.playersByRoom = Del(@, id)]

updateRoomPlayerCount(st, id, count) ==
  IF Has(st.rooms, id)
  THEN [st EXCEPT !.rooms[id].currentPlayers = count]
  ELSE st

\* Object.assign(room, updates) with the six fields dealCards passes.
updateRoomGameState(st, id, updates) ==
  IF Has(st.rooms, id)
  THEN [st EXCEPT !.rooms[id] =
          [@ EXCEPT !.gameState = updates.gameState, !.round = updates.round,
                    !.deck = updates.deck,
                    !.communityCards = updates.communityCards,
                    !.pot = updates.pot, !.currentBet = updates.currentBet]]
  ELSE st

\* Faulty variant of updateRoomCurrentBet: the bet is written to every room.
updateRoomCurrentBetEverywhere(st, id, bet) ==
  IF Has(st.rooms, id)
  THEN [st EXCEPT !.rooms = [r \in DOMAIN st.rooms |-> [st.rooms[r] EXCEPT !.currentBet = bet]]]
  ELSE st

updateRoomCurrentBet(st, id, bet) ==
  IF Has(st.rooms, id)
  THEN [st EXCEPT !.rooms[id].currentBet = bet]
  ELSE st

getPlayerBySocketId(st, socketId) ==
  IF Has(st.playersBySocket, socketId)
     /\ Has(st.players, st.playersBySocket[socketId])
  THEN <<st.playersBySocket[socketId]>>
  ELSE <<>>

getPlayersByRoomId(st, roomId) ==
  LET ids == IF Has(st.playersByRoom, roomId) THEN st.playersByRoom[roomId] ELSE <<>>
      live(id) == Has(st.players, id)
  IN SelectSeq(ids, live)

createPlayer(st, id, insertPlayer) ==
  LET roomPlayers == IF Has(st.playersByRoom, insertPlayer.roomId)
                     THEN st.playersByRoom[insertPlayer.roomId] ELSE <<>>
  IN [st EXCEPT
        !.players = Put(@, id,
           [roomId |-> insertPlayer.roomId, socketId |-> insertPlayer.socketId,
            name |-> insertPlayer.name, chips |-> insertPlayer.chips,
            hand |-> <<>>, isConnected |-> TRUE, isReady |-> FALSE,
            hasActed |-> FALSE, currentBet |-> 0, isFolded |-> FALSE]),
        !.playersBySocket = Put(@, insertPlayer.socketId, id),
        !.playersByRoom = Put(@, insertPlayer.roomId, Append(roomPlayers, id))]

\* Faulty variant of removePlayer: the room's player list is not updated.
removePlayerKeepsList(st, id) ==
  IF Has(st.players, id)
  THEN [st EXCEPT !.playersBySocket = Del(@, st.players[id].socketId),
                  !.players = Del(@, id)]
  ELSE st

removePlayer(st, id) ==
  IF Has(st.players, id)
  THEN LET player == st.players[id]
           roomPlayers == IF Has(st.playersByRoom, player.roomId)
                          THEN st.playersByRoom[player.roomId] ELSE <<>>
           other(pid) == pid # id
       IN [st EXCEPT
             !.playersBySocket = Del(@, player.socketId),
             !.playersByRoom = Put(@, player.roomId, SelectSeq(roomPlayers, other)),
             !.players = Del(@, id)]
  ELSE st

\* Faulty variant of setPlayerConnected: a player that goes offline loses
\* the hand.
setPlayerConnectedDropsHand(st, socketId, connected) ==
  IF getPlayerBySocketId(st, socketId) # <<>>
  THEN [st EXCEPT !.players[st.playersBySocket[socketId]] =
          [@ EXCEPT !.isConnected = connected,
                    !.hand = IF connected THEN @ ELSE <<>>]]
  ELSE st

setPlayerConnected(st, socketId, connected) ==
  IF getPlayerBySocketId(st, socketId) # <<>>
  THEN [st EXCEPT !.players[st.playersBySocket[socketId]].isConnected = connected]
  ELSE st

setPlayerReady(st, socketId, ready) ==
  IF getPlayerBySocketId(st, socketId) # <<>>
  THEN [st EXCEPT !.players[st.playersBySocket[socketId]].isReady = ready]
  ELSE st

setPlayerHasActed(st, id, hasActed) ==
  IF Has(st.players, id) THEN [st EXCEPT !.players[id].hasActed = hasActed] ELSE st

setPlayerFolded(st, id, folded) ==
  IF Has(st.players, id) THEN [st EXCEPT !.players[id].isFolded = folded] ELSE st

\* Faulty variant of setPlayerHand: the player also gets a fresh chip stack.
setPlayerHandFreshStack(st, id, cards) ==
  IF Has(st.players, id)
  THEN [st EXCEPT !.players[id].hand = <<cards>>, !.players[id].chips = StartingChips]
  ELSE st

\* player.hand = JSON.stringify(cards): <<cards>>; a null hand is <<>>.
setPlayerHand(st, id, cards) ==
  IF Has(st.players, id) THEN [st EXCEPT !.players[id].hand = <<cards>>] ELSE st

\* Faulty variant of updatePlayerBet: the bet is not taken from the chips.
updatePlayerBetKeepsChips(st, id, additionalBet) ==
  IF Has(st.players, id)
  THEN LET roomId == st.players[id].roomId
           st1 == [st EXCEPT !.players[id].currentBet = @ + additionalBet]
       IN IF Has(st1.rooms, roomId)
          THEN [st1 EXCEPT !.rooms[roomId].pot = @ + additionalBet]
          ELSE st1
  ELSE st

\* Faulty variant of updatePlayerBet: the bet is not added to the room's pot.
updatePlayerBetNoPot(st, id, additionalBet) ==
  IF Has(st.players, id)
  THEN [st EXCEPT !.players[id].currentBet = @ + additionalBet,
                  !.players[id].chips = @ - additionalBet]
  ELSE st

updatePlayerBet(st, id, additionalBet) ==
  IF Has(st.players, id)
  THEN LET roomId == st.players[id].roomId
           st1 == [st EXCEPT !.players[id].currentBet = @ + additionalBet,
                             !.players[id].chips = @ - additionalBet]
       IN IF Has(st1.rooms, roomId)
          THEN [st1 EXCEPT !.rooms[roomId].pot = @ + additionalBet]
          ELSE st1
  ELSE st

\* ------------------------------------------------------- PokerGameManager
\* What a manager method returns, with the store it leaves behind:
\* playerId is <<id>> when the result carries one; bets lists the deltas
\* the call passed to updatePlayerBet.  roundEnded, gameEnded and winners
\* are the optional fields of handlePlayerAction's result, <<>> when the
\* returned object does not have them.
Failure(st, error) ==
  [success |-> FALSE, error |-> error, st |-> st, playerId |-> <<>>, bets |-> <<>>,
   roundEnded |-> <<>>, gameEnded |-> <<>>, winners |-> <<>>]

\* Faulty variant of Success: the result reports the end of the round.
SuccessRoundEnded(st, playerId, bets) ==
  [success |-> TRUE, error |-> "", st |-> st, playerId |-> playerId, bets |-> bets,
   roundEnded |-> <<TRUE>>, gameEnded |-> <<>>, winners |-> <<>>]

Success(st, playerId, bets) ==
  [success |-> TRUE, error |-> "", st |-> st, playerId |-> playerId, bets |-> bets,
   roundEnded |-> <<>>, gameEnded |-> <<>>, winners |-> <<>>]

\* The draws on which the "ensure unique room code" loop stops at the last
\* one: getRoomByCode finds a room for each draw but the last.
DrawsEndLoop(st, draws) ==
  /\ \A i \in 1..(Len(draws) - 1) : getRoomByCode(st, draws[i]) # <<>>
  /\ getRoomByCode(st, draws[Len(draws)]) = <<>>

\* The "ensure unique room code" loop over the codes generateRoomCode
\* yields, in order: the first one that getRoomByCode misses.
RECURSIVE uniqueRoomCode(_, _)
uniqueRoomCode(st, draws) ==
  IF getRoomByCode(st, Head(draws)) # <<>> /\ Len(draws) > 1
  THEN uniqueRoomCode(st, Tail(draws))
  ELSE Head(draws)

\* roomId and playerId are the ids randomUUID hands to the store (the model
\* numbers them in the order they are drawn).
createRoom(st, socketId, playerName, roomCode, roomId, playerId) ==
  LET st1 == storageCreateRoom(st, roomId,
                [code |-> roomCode, hostId |-> socketId, maxPlayers |-> RoomMaxPlayers])
      st2 == createPlayer(st1, playerId,
                [roomId |-> roomId, socketId |-> socketId, name |-> playerName,
                 chips |-> StartingChips])
      st3 == updateRoomPlayerCount(st2, roomId, 1)
  IN Success(st3, <<playerId>>, <<>>)

\* Faulty variant of joinRoom: the room's capacity is not tested.
joinRoomNoFullCheck(st, socketId, playerName, roomCode, playerId) ==
  LET found == getRoomByCode(st, roomCode) IN
  IF found = <<>> THEN Failure(st, "Room not found")
  ELSE
    LET roomId == found[1]
        room == st.rooms[roomId]
        existingPlayer == getPlayerBySocketId(st, socketId)
    IN
    IF existingPlayer # <<>> /\ st.players[existingPlayer[1]].roomId = roomId
    THEN Success(setPlayerConnected(st, socketId, TRUE), existingPlayer, <<>>)
    ELSE
      LET st1 == createPlayer(st, playerId,
                    [roomId |-> roomId, socketId |-> socketId, name |-> playerName,
                     chips |-> StartingChips])
          st2 == updateRoomPlayerCount(st1, roomId, room.currentPlayers + 1)
      IN Success(st2, <<playerId>>, <<>>)

joinRoom(st, socketId, playerName, roomCode, playerId) ==
  LET found == getRoomByCode(st, roomCode) IN
  IF found = <<>> THEN Failure(st, "Room not found")
  ELSE
    LET roomId == found[1]
        room == st.rooms[roomId]
        existingPlayer == getPlayerBySocketId(st, socketId)
    IN
    IF room.currentPlayers >= room.maxPlayers THEN Failure(st, "Room is full")
    ELSE IF existingPlayer # <<>> /\ st.players[existingPlayer[1]].roomId = roomId
    THEN Success(setPlayerConnected(st, socketId, TRUE), existingPlayer, <<>>)
    ELSE
      LET st1 == createPlayer(st, playerId,
                    [roomId |-> roomId, socketId |-> socketId, name |-> playerName,
                     chips |-> StartingChips])
          st2 == updateRoomPlayerCount(st1, roomId, room.currentPlayers + 1)
      IN Success(st2, <<playerId>>, <<>>)

\* joinRoom allocates a player id only on the path that calls createPlayer.
joinRoomCreates(st, socketId, roomCode) ==
  LET found == getRoomByCode(st, roomCode)
      existingPlayer == getPlayerBySocketId(st, socketId)
  IN /\ found # <<>>
     /\ st.rooms[found[1]].currentPlayers < st.rooms[found[1]].maxPlayers
     /\ ~(existingPlayer # <<>> /\ st.players[existingPlayer[1]].roomId = found[1])

\* Faulty variant of leaveRoom: the emptiness test reads the count the room
\* had before updateRoomPlayerCount.
leaveRoomStaleCount(st, socketId) ==
  LET found == getPlayerBySocketId(st, socketId) IN
  IF found = <<>> THEN Failure(st, "Player not found")
  ELSE
    LET playerId == found[1]
        roomId == st.players[playerId].roomId
    IN
    IF getRoomById(st, roomId) = <<>> THEN Failure(st, "Room not found")
    ELSE
      LET st1 == removePlayer(st, playerId)
          count == st1.rooms[roomId].currentPlayers - 1
          st2 == updateRoomPlayerCount(st1, roomId, IF count > 0 THEN count ELSE 0)
          st3 == IF st.rooms[roomId].currentPlayers <= 1
                 THEN deleteRoom(st2, roomId) ELSE st2
      IN Success(st3, <<>>, <<>>)

\* room is the stored object itself, so the test after updateRoomPlayerCount
\* reads the count that call has just written.
leaveRoom(st, socketId) ==
  LET found == getPlayerBySocketId(st, socketId) IN
  IF found = <<>> THEN Failure(st, "Player not found")
  ELSE
    LET playerId == found[1]
        roomId == st.players[playerId].roomId
    IN
    IF getRoomById(st, roomId) = <<>> THEN Failure(st, "Room not found")
    ELSE
      LET st1 == removePlayer(st, playerId)
          count == st1.rooms[roomId].currentPlayers - 1
          st2 == updateRoomPlayerCount(st1, roomId, IF count > 0 THEN count ELSE 0)
          st3 == IF st2.rooms[roomId].currentPlayers <= 1
                 THEN deleteRoom(st2, roomId) ELSE st2
      IN Success(st3, <<>>, <<>>)

\* Faulty variant of dealHands: the cards dealt are not removed from the
\* deck, so every player gets the first four.
RECURSIVE dealHandsSameCards(_, _, _)
dealHandsSameCards(st, playerIds, deck) ==
  IF playerIds = <<>> THEN st
  ELSE dealHandsSameCards(setPlayerHand(st, Head(playerIds), SubSeq(deck, 1, HandSize)),
                          Tail(playerIds), deck)

\* deck.splice(0, 4) for each player in turn: player k (1-based) gets cards
\* 4(k-1)+1 .. 4k of the deck, the rest stays.
RECURSIVE dealHands(_, _, _)
dealHands(st, playerIds, deck) ==
  IF playerIds = <<>> THEN st
  ELSE dealHands(setPlayerHand(st, Head(playerIds),
                               SubSeq(deck, 1, IF Len(deck) < HandSize THEN Len(deck) ELSE HandSize)),
                 Tail(playerIds),
                 SubSeq(deck, HandSize + 1, Len(deck)))

\* Faulty variant of remainingDeck: only the first hand leaves the deck.
remainingDeckOneHand(n, deck) ==
  IF n = 0 THEN deck ELSE SubSeq(deck, HandSize + 1, Len(deck))

RECURSIVE remainingDeck(_, _)
remainingDeck(n, deck) ==
  IF n = 0 THEN deck ELSE remainingDeck(n - 1, SubSeq(deck, HandSize + 1, Len(deck)))

\* Faulty variant of dealCards: one seated player is enough.
dealCardsSolo(st, roomId, rnd) ==
  IF getRoomById(st, roomId) = <<>> THEN Failure(st, "Room not found")
  ELSE
    LET seated == getPlayersByRoomId(st, roomId) IN
    IF Len(seated) < 1 THEN Failure(st, "Need at least 2 players to deal cards")
    ELSE
      LET deck == createDeck(rnd)
          st1 == dealHands(st, seated, deck)
          st2 == updateRoomGameState(st1, roomId,
                   [gameState |-> "playing", round |-> "pre-flop",
                    deck |-> <<remainingDeck(Len(seated), deck)>>,
                    communityCards |-> <<<<>>>>, pot |-> 0, currentBet |-> 0])
      IN Success(st2, <<>>, <<>>)

dealCards(st, roomId, rnd) ==
  IF getRoomById(st, roomId) = <<>> THEN Failure(st, "Room not found")
  ELSE
    LET seated == getPlayersByRoomId(st, roomId) IN
    IF Len(seated) < 2 THEN Failure(st, "Need at least 2 players to deal cards")
    ELSE
      LET deck == createDeck(rnd)
          st1 == dealHands(st, seated, deck)
          st2 == updateRoomGameState(st1, roomId,
                   [gameState |-> "playing", round |-> "pre-flop",
                    deck |-> <<remainingDeck(Len(seated), deck)>>,
                    communityCards |-> <<<<>>>>, pot |-> 0, currentBet |-> 0])
      IN Success(st2, <<>>, <<>>)

\* The cases of handlePlayerAction's switch; player and room are the stored
\* objects, so a read after a store call sees what the call wrote.
\* Faulty variant of actionFold: folding also counts as having acted.
actionFoldActs(st, playerId, roomId, amount) ==
  Success(setPlayerHasActed(setPlayerFolded(st, playerId, TRUE), playerId, TRUE), <<>>, <<>>)

actionFold(st, playerId, roomId, amount) ==
  Success(setPlayerFolded(st, playerId, TRUE), <<>>, <<>>)

\* Faulty variant of actionCheck: hasActed is set before the bet is compared.
actionCheckMarksFirst(st, playerId, roomId, amount) ==
  LET st1 == setPlayerHasActed(st, playerId, TRUE) IN
  IF st.rooms[roomId].currentBet > st.players[playerId].currentBet
  THEN Failure(st1, "Cannot check when there is a bet to call")
  ELSE Success(st1, <<>>, <<>>)

\* Faulty variant of actionCheck: a check is refused when the bets are equal.
actionCheckStrict(st, playerId, roomId, amount) ==
  IF st.rooms[roomId].currentBet >= st.players[playerId].currentBet
  THEN Failure(st, "Cannot check when there is a bet to call")
  ELSE Success(setPlayerHasActed(st, playerId, TRUE), <<>>, <<>>)

actionCheck(st, playerId, roomId, amount) ==
  IF st.rooms[roomId].currentBet > st.players[playerId].currentBet
  THEN Failure(st, "Cannot check when there is a bet to call")
  ELSE Success(setPlayerHasActed(st, playerId, TRUE), <<>>, <<>>)

\* Faulty variant of actionCall: the player pays the room's whole current
\* bet instead of the shortfall.
actionCallFullBet(st, playerId, roomId, amount) ==
  LET callAmount == st.rooms[roomId].currentBet IN
  IF callAmount > st.players[playerId].chips
  THEN Failure(st, "Insufficient chips to call")
  ELSE Success(setPlayerHasActed(updatePlayerBet(st, playerId, callAmount), playerId, TRUE),
               <<>>, <<callAmount>>)

actionCall(st, playerId, roomId, amount) ==
  LET callAmount == st.rooms[roomId].currentBet - st.players[playerId].currentBet IN
  IF callAmount > st.players[playerId].chips
  THEN Failure(st, "Insufficient chips to call")
  ELSE Success(setPlayerHasActed(updatePlayerBet(st, playerId, callAmount), playerId, TRUE),
               <<>>, <<callAmount>>)

\* Faulty variant of actionRaise: the amount is not compared with the chips.
actionRaiseNoChipsCheck(st, playerId, roomId, amount) ==
  IF amount = <<>> \/ amount = <<0>> \/ amount[1] <= st.rooms[roomId].currentBet
  THEN Failure(st, "Raise amount must be greater than current bet")
  ELSE
    LET delta == amount[1] - st.players[playerId].currentBet
        st1 == updatePlayerBet(st, playerId, delta)
        st2 == updateRoomCurrentBet(st1, roomId, amount[1])
    IN Success(setPlayerHasActed(st2, playerId, TRUE), <<>>, <<delta>>)

\* Faulty variant of actionRaise: the player pays the whole amount instead
\* of the difference to what is already bet.
actionRaiseFullAmount(st, playerId, roomId, amount) ==
  IF amount = <<>> \/ amount = <<0>> \/ amount[1] <= st.rooms[roomId].currentBet
  THEN Failure(st, "Raise amount must be greater than current bet")
  ELSE IF amount[1] > st.players[playerId].chips
  THEN Failure(st, "Insufficient chips to raise")
  ELSE
    LET delta == amount[1]
        st1 == updatePlayerBet(st, playerId, delta)
        st2 == updateRoomCurrentBet(st1, roomId, amount[1])
    IN Success(setPlayerHasActed(st2, playerId, TRUE), <<>>, <<delta>>)

\* !amount: no amount in the payload, or the number 0.
actionRaise(st, playerId, roomId, amount) ==
  IF amount = <<>> \/ amount = <<0>> \/ amount[1] <= st.rooms[roomId].currentBet
  THEN Failure(st, "Raise amount must be greater than current bet")
  ELSE IF amount[1] > st.players[playerId].chips
  THEN Failure(st, "Insufficient chips to raise")
  ELSE
    LET delta == amount[1] - st.players[playerId].currentBet
        st1 == updatePlayerBet(st, playerId, delta)
        st2 == updateRoomCurrentBet(st1, roomId, amount[1])
    IN Success(setPlayerHasActed(st2, playerId, TRUE), <<>>, <<delta>>)

actionAllIn(st, playerId, roomId, amount) ==
  LET stack == st.players[playerId].chips
      st1 == updatePlayerBet(st, playerId, stack)
      st2 == setPlayerHasActed(st1, playerId, TRUE)
      st3 == IF st2.players[playerId].chips > st2.rooms[roomId].currentBet
             THEN updateRoomCurrentBet(st2, roomId, st2.players[playerId].chips)
             ELSE st2
  IN Success(st3, <<>>, <<stack>>)

handlePlayerAction(st, socketId, action, amount) ==
  LET found == getPlayerBySocketId(st, socketId) IN
  IF found = <<>> THEN Failure(st, "Player not found")
  ELSE
    LET playerId == found[1]
        roomId == st.players[playerId].roomId
    IN
    IF getRoomById(st, roomId) = <<>> THEN Failure(st, "Room not found")
    ELSE CASE action = "fold" -> actionFold(st, playerId, roomId, amount)
           [] action = "check" -> actionCheck(st, playerId, roomId, amount)
           [] action = "call" -> actionCall(st, playerId, roomId, amount)
           [] action = "raise" -> actionRaise(st, playerId, roomId, amount)
           [] action = "all-in" -> actionAllIn(st, playerId, roomId, amount)
           [] OTHER -> Failure(st, "Invalid action")

mapToPlayerState(st, playerId) ==
  LET player == st.players[playerId] IN
  [id |-> playerId, name |-> player.name, chips |-> player.chips,
   hand |-> IF player.hand = <<>> THEN <<>> ELSE player.hand[1],
   currentBet |-> player.currentBet, isConnected |-> player.isConnected,
   isReady |-> player.isReady, hasActed |-> player.hasActed,
   isFolded |-> player.isFolded, position |-> 0]

\* Faulty variant of getActivePlayerId: a folded player can be active.
getActivePlayerIdFolded(st, playerIds) ==
  LET active(id) == /\ st.players[id].isConnected
                    /\ ~st.players[id].hasActed
      activePlayers == SelectSeq(playerIds, active)
  IN IF activePlayers = <<>> THEN <<>> ELSE <<activePlayers[1]>>

\* <<id>> of the first connected, unfolded player that has not acted, or <<>>.
getActivePlayerId(st, playerIds) ==
  LET active(id) == /\ st.players[id].isConnected
                    /\ ~st.players[id].isFolded
                    /\ ~st.players[id].hasActed
      activePlayers == SelectSeq(playerIds, active)
  IN IF activePlayers = <<>> THEN <<>> ELSE <<activePlayers[1]>>

\* What getGameState returns once it holds the room and the array `seated`
\* that getPlayersByRoomId returned.
gameStateOf(st, roomId, seated) ==
  LET room == st.rooms[roomId] IN
  [gameState |->
     [phase |-> room.gameState, round |-> room.round, pot |-> room.pot,
      currentBet |-> room.currentBet,
      activePlayerId |-> getActivePlayerId(st, seated),
      deck |-> IF room.deck = <<>> THEN <<>> ELSE room.deck[1],
      communityCards |-> IF room.communityCards = <<>> THEN <<>>
                         ELSE room.communityCards[1]],
   players |-> [k \in 1..Len(seated) |-> mapToPlayerState(st, seated[k])]]

\* key is the string the caller passes as roomCode: <<"code", c>> for a room
\* code, <<"id", n>> for the uuid of room n. <<>> stands for null.
getGameState(st, key) ==
  LET found == IF key[1] = "code" THEN getRoomByCode(st, key[2]) ELSE <<>> IN
  IF found = <<>> THEN <<>>
  ELSE
    <<gameStateOf(st, found[1], getPlayersByRoomId(st, found[1]))>>

\* ---------------------------------------------------------------- gateway
\* A socket.io group is named by the string passed to join/to/leave:
\* <<"code", c>> for a room code and <<"id", n>> for the uuid of room n.
CodeKey(code) == <<"code", code>>
IdKey(roomId) == <<"id", roomId>>

\* The sockets a broadcast to a group reaches, with the memberships g.
Members(g, group) == {s \in DOMAIN g : group \in g[s]}

Emit(name, to, payload) == [name |-> name, to |-> to, payload |-> payload]

\* game-state-updated to the group `group`, from the snapshot for `key`;
\* nothing when getGameState returns null.
StateUpdate(st, g, key, group) ==
  LET gameData == getGameState(st, key) IN
  IF gameData = <<>> THEN <<>>
  ELSE <<Emit("game-state-updated", Members(g, group), gameData[1])>>

\* Faulty variant of ValidName: no upper limit on the length.
ValidNameNoMax(name) == Len(name) >= NameMinLength

\* createRoomSchema / joinRoomSchema / playerActionSchema
ValidName(name) == Len(name) >= NameMinLength /\ Len(name) <= NameMaxLength
ValidCode(code) == StrLen(code) = CodeLength
ValidAction(action) == action \in {"check", "call", "raise", "fold", "all-in"}

SetStore(st) ==
  /\ rooms' = st.rooms
  /\ players' = st.players
  /\ playersBySocket' = st.playersBySocket
  /\ playersByRoom' = st.playersByRoom

\* The ledger follows the rooms: a new room starts at 0, a deleted room is
\* dropped, `roomId` (when it stays) moves to `value`.
LedgerAfter(st, roomId, value) ==
  [r \in DOMAIN st.rooms |->
     IF r = roomId THEN value ELSE IF Has(ledger, r) THEN ledger[r] ELSE 0]

LedgerKeep(st) == [r \in DOMAIN st.rooms |-> IF Has(ledger, r) THEN ledger[r] ELSE 0]

\* Socket s delivers one more event to its handler, out of `budget` events.
Deliver(s, budget) ==
  /\ s \in open
  /\ handled < budget
  /\ handled' = handled + 1
  /\ UNCHANGED shuffling

\* No handler is suspended at an await: the event loop has drained the
\* continuations of the handlers before it, and this one runs to its end.
Drained == inflight = <<>> /\ UNCHANGED <<inflight, raced>>

Handle(s) == Deliver(s, MaxIntents) /\ Drained

\* No shuffleDeck call is in progress while the gateway handles an intent:
\* createDeck runs it to the end inside dealCards.
NoShuffle == [given |-> <<>>, deck |-> <<>>, shuffled |-> <<>>, rnd |-> <<>>, i |-> 0]

EmptyStore == [rooms |-> EmptyMap, players |-> EmptyMap,
               playersBySocket |-> EmptyMap, playersByRoom |-> EmptyMap]

NoRace == [store |-> EmptyStore, nextRoomId |-> 0, nextPlayerId |-> 0, intents |-> <<>>]

InitGateway ==
  /\ rooms = EmptyMap
  /\ players = EmptyMap
  /\ playersBySocket = EmptyMap
  /\ playersByRoom = EmptyMap
  /\ nextRoomId = 0
  /\ nextPlayerId = 0
  /\ open = Sockets
  /\ groups = [s \in Sockets |-> {}]
  /\ events = <<>>
  /\ handled = 0
  /\ ledger = EmptyMap
  /\ inflight = <<>>
  /\ raced = NoRace

Init == InitGateway /\ shuffling = NoShuffle

CreateRoomHandler(s, name, draws) ==
  /\ UNCHANGED open
  /\ IF ~ValidName(name)
     THEN /\ events' = <<Emit("error", {s}, [message |-> "Invalid room creation data"])>>
          /\ UNCHANGED <<storeVars, nextRoomId, nextPlayerId, groups, ledger>>
     ELSE LET roomCode == uniqueRoomCode(Store, draws)
              result == createRoom(Store, s, name, roomCode, nextRoomId + 1, nextPlayerId + 1)
              joined == [groups EXCEPT ![s] = @ \cup {CodeKey(roomCode)}]
          IN /\ DrawsEndLoop(Store, draws)
             /\ SetStore(result.st)
             /\ nextRoomId' = nextRoomId + 1
             /\ nextPlayerId' = nextPlayerId + 1
             /\ groups' = joined
             /\ ledger' = LedgerAfter(result.st, nextRoomId + 1, 0)
             /\ events' =
                  <<Emit("room-created", {s},
                         [roomCode |-> roomCode, playerId |-> result.playerId[1]])>>
                  \o StateUpdate(result.st, joined, CodeKey(roomCode), CodeKey(roomCode))

CreateRoomIntent(s, name, draws) == Handle(s) /\ CreateRoomHandler(s, name, draws)

\* Faulty variant of the join-room callback: player-joined goes to the whole
\* group, the joiner included.
JoinRoomHandlerEchoes(s, name, roomCode) ==
  /\ UNCHANGED <<open, nextRoomId>>
  /\ IF ~(ValidName(name) /\ ValidCode(roomCode))
     THEN /\ events' = <<Emit("error", {s}, [message |-> "Invalid room join data"])>>
          /\ UNCHANGED <<storeVars, nextPlayerId, groups, ledger>>
     ELSE LET creates == joinRoomCreates(Store, s, roomCode)
              result == joinRoom(Store, s, name, roomCode, nextPlayerId + 1)
              joined == [groups EXCEPT ![s] = @ \cup {CodeKey(roomCode)}]
          IN /\ SetStore(result.st)
             /\ nextPlayerId' = IF creates THEN nextPlayerId + 1 ELSE nextPlayerId
             /\ ledger' = LedgerKeep(result.st)
             /\ IF result.success
                THEN /\ groups' = joined
                     /\ events' =
                          <<Emit("room-joined", {s},
                                 [roomCode |-> roomCode, playerId |-> result.playerId[1]]),
                            Emit("player-joined", Members(joined, CodeKey(roomCode)),
                                 [player |-> mapToPlayerState(result.st, result.playerId[1])])>>
                          \o StateUpdate(result.st, joined, CodeKey(roomCode), CodeKey(roomCode))
                ELSE /\ groups' = groups
                     /\ events' = <<Emit("error", {s}, [message |-> result.error])>>

JoinRoomHandler(s, name, roomCode) ==
  /\ UNCHANGED <<open, nextRoomId>>
  /\ IF ~(ValidName(name) /\ ValidCode(roomCode))
     THEN /\ events' = <<Emit("error", {s}, [message |-> "Invalid room join data"])>>
          /\ UNCHANGED <<storeVars, nextPlayerId, groups, ledger>>
     ELSE LET creates == joinRoomCreates(Store, s, roomCode)
              result == joinRoom(Store, s, name, roomCode, nextPlayerId + 1)
              joined == [groups EXCEPT ![s] = @ \cup {CodeKey(roomCode)}]
          IN /\ SetStore(result.st)
             /\ nextPlayerId' = IF creates THEN nextPlayerId + 1 ELSE nextPlayerId
             /\ ledger' = LedgerKeep(result.st)
             /\ IF result.success
                THEN /\ groups' = joined
                     /\ events' =
                          <<Emit("room-joined", {s},
                                 [roomCode |-> roomCode, playerId |-> result.playerId[1]]),
                            Emit("player-joined", Members(joined, CodeKey(roomCode)) \ {s},
                                 [player |-> mapToPlayerState(result.st, result.playerId[1])])>>
                          \o StateUpdate(result.st, joined, CodeKey(roomCode), CodeKey(roomCode))
                ELSE /\ groups' = groups
                     /\ events' = <<Emit("error", {s}, [message |-> result.error])>>

JoinRoomIntent(s, name, roomCode) == Handle(s) /\ JoinRoomHandler(s, name, roomCode)

LeaveRoomIntent(s) ==
  /\ Handle(s)
  /\ UNCHANGED <<open, nextRoomId, nextPlayerId>>
  /\ LET player == getPlayerBySocketId(Store, s) IN
     IF player = <<>>
     THEN /\ events' = <<>>
          /\ UNCHANGED <<storeVars, groups, ledger>>
     ELSE LET roomId == players[player[1]].roomId
              result == leaveRoom(Store, s)
              left == [groups EXCEPT ![s] = @ \ {IdKey(roomId)}]
          IN /\ SetStore(result.st)
             /\ ledger' = LedgerKeep(result.st)
             /\ IF result.success
                THEN /\ groups' = left
                     /\ events' =
                          <<Emit("player-left", Members(groups, IdKey(roomId)) \ {s},
                                 [playerId |-> player[1]])>>
                          \o StateUpdate(result.st, left, IdKey(roomId), IdKey(roomId))
                ELSE /\ groups' = groups
                     /\ events' = <<>>

PlayerReadyIntent(s) ==
  /\ Handle(s)
  /\ UNCHANGED <<open, nextRoomId, nextPlayerId, groups, ledger>>
  /\ LET player == getPlayerBySocketId(Store, s) IN
     IF player = <<>>
     THEN /\ events' = <<>>
          /\ UNCHANGED storeVars
     ELSE LET roomId == players[player[1]].roomId
              st1 == setPlayerReady(Store, s, TRUE)
          IN /\ SetStore(st1)
             /\ events' = StateUpdate(st1, groups, IdKey(roomId), IdKey(roomId))

DealCardsIntent(s, rnd) ==
  /\ Handle(s)
  /\ UNCHANGED <<open, nextRoomId, nextPlayerId, groups>>
  /\ LET player == getPlayerBySocketId(Store, s) IN
     IF player = <<>>
     THEN /\ events' = <<>>
          /\ UNCHANGED <<storeVars, ledger>>
     ELSE LET roomId == players[player[1]].roomId
              result == dealCards(Store, roomId, rnd)
              gameData == getGameState(result.st, IdKey(roomId))
              to == Members(groups, IdKey(roomId))
          IN /\ SetStore(result.st)
             /\ ledger' = IF result.success THEN LedgerAfter(result.st, roomId, 0)
                          ELSE ledger
             /\ events' =
                  IF ~result.success
                  THEN <<Emit("error", {s}, [message |-> result.error])>>
                  ELSE IF gameData = <<>> THEN <<>>
                  ELSE <<Emit("game-state-updated", to, gameData[1]),
                         Emit("cards-dealt", to, [players |-> gameData[1].players])>>
                       \o (IF gameData[1].gameState.phase = "betting"
                           THEN <<Emit("betting-round-started", to,
                                       [activePlayerId |-> gameData[1].gameState.activePlayerId])>>
                           ELSE <<>>)

PlayerActionIntent(s, action, amount) ==
  /\ Handle(s)
  /\ UNCHANGED <<open, nextRoomId, nextPlayerId, groups>>
  /\ IF ~ValidAction(action)
     THEN /\ events' = <<Emit("error", {s}, [message |-> "Invalid player action"])>>
          /\ UNCHANGED <<storeVars, ledger>>
     ELSE LET player == getPlayerBySocketId(Store, s) IN
          IF player = <<>>
          THEN /\ events' = <<>>
               /\ UNCHANGED <<storeVars, ledger>>
          ELSE LET roomId == players[player[1]].roomId
                   result == handlePlayerAction(Store, s, action, amount)
                   gameData == getGameState(result.st, IdKey(roomId))
                   to == Members(groups, IdKey(roomId))
               IN /\ SetStore(result.st)
                  /\ ledger' = IF Has(ledger, roomId)
                               THEN [ledger EXCEPT ![roomId] = @ + SeqSum(result.bets)]
                               ELSE ledger
                  /\ events' =
                       IF result.success
                       THEN <<Emit("player-action-made", to,
                                   [playerId |-> player[1], action |-> action,
                                    amount |-> amount])>>
                            \o (IF gameData = <<>> THEN <<>>
                                ELSE <<Emit("game-state-updated", to, gameData[1])>>
                                     \o (IF result.roundEnded = <<TRUE>>
                                         THEN <<Emit("round-ended", to,
                                                     [winners |-> result.winners,
                                                      pot |-> gameData[1].gameState.pot])>>
                                         ELSE <<>>)
                                     \o (IF result.gameEnded = <<TRUE>>
                                         THEN <<Emit("game-ended", to,
                                                     [finalResults |-> gameData[1].players])>>
                                         ELSE <<>>))
                       ELSE <<Emit("error", {s}, [message |-> result.error])>>

\* The socket is gone for good (its id is never reused) and has left every
\* group by the time the handler runs.
DisconnectIntent(s) ==
  /\ Handle(s)
  /\ open' = open \ {s}
  /\ groups' = [groups EXCEPT ![s] = {}]
  /\ UNCHANGED <<nextRoomId, nextPlayerId, ledger>>
  /\ LET player == getPlayerBySocketId(Store, s) IN
     IF player = <<>>
     THEN /\ events' = <<>>
          /\ UNCHANGED storeVars
     ELSE LET roomId == players[player[1]].roomId
              st1 == setPlayerConnected(Store, s, FALSE)
          IN /\ SetStore(st1)
             /\ events' =
                  <<Emit("player-disconnected", Members(groups', IdKey(roomId)) \ {s},
                         [playerId |-> player[1]])>>
                  \o StateUpdate(st1, groups', IdKey(roomId), IdKey(roomId))

\* The code sequences the generator can yield before the loop ends.
CodeDraws ==
  {<<c>> : c \in RoomCodes}
  \cup {draws \in {<<c, d>> : c \in RoomCodes, d \in RoomCodes} : draws[1] # draws[2]}

\* create-room payloads with the codes generateRoomCode goes on to yield: a
\* name the schema rejects ends the handler before any code is drawn.
CreatePayloads ==
  {[playerName |-> n, draws |-> d] : n \in {n \in NameInputs : ValidName(n)}, d \in CodeDraws}
  \cup {[playerName |-> n, draws |-> <<"AAAAAA">>] : n \in {n \in NameInputs : ~ValidName(n)}}

\* join-room payloads: every room code with a valid name, every name with a
\* valid code (the schema rejects the payload on either field alone).
JoinPayloads ==
  {[playerName |-> <<"A", "n", "n">>, roomCode |-> c] : c \in CodeInputs}
  \cup {[playerName |-> n, roomCode |-> "AAAAAA"] : n \in NameInputs}

Next ==
  \/ \E s \in Sockets, data \in CreatePayloads :
       CreateRoomIntent(s, data.playerName, data.draws)
  \/ \E s \in Sockets, data \in JoinPayloads :
       JoinRoomIntent(s, data.playerName, data.roomCode)
  \/ \E s \in Sockets : LeaveRoomIntent(s)
  \/ \E s \in Sockets : PlayerReadyIntent(s)
  \/ \E s \in Sockets, rnd \in RandomDraws : DealCardsIntent(s, rnd)
  \/ \E s \in Sockets, data \in ActionPayloads :
       PlayerActionIntent(s, data.action, data.amount)
  \/ \E s \in Sockets : DisconnectIntent(s)

Spec == Init /\ [][Next]_vars

\* ------------------------------------------------------- filling a room
\* Longer behaviours over fewer inputs, enough to seat maxPlayers players
\* in one room: "s1" hosts room AAAAAA, "s2" hosts room BBBBBB, and both
\* join the two rooms; each join of a room the socket is not seated in
\* adds a player record to that room.
FillCreates ==
  {[socket |-> "s1", draws |-> <<"AAAAAA">>], [socket |-> "s2", draws |-> <<"BBBBBB">>]}

FillJoins == {[socket |-> s, roomCode |-> c] : s \in Sockets, c \in RoomCodes}

FillCreate(s, draws) ==
  Deliver(s, MaxFillIntents) /\ Drained /\ CreateRoomHandler(s, <<"A", "n", "n">>, draws)

FillJoin(s, roomCode) ==
  Deliver(s, MaxFillIntents) /\ Drained /\ JoinRoomHandler(s, <<"A", "n", "n">>, roomCode)

NextFill ==
  \/ \E data \in FillCreates : FillCreate(data.socket, data.draws)
  \/ \E data \in FillJoins : FillJoin(data.socket, data.roomCode)

SpecFill == Init /\ [][NextFill]_vars

\* ------------------------------------------------- shuffleDeck, step by step
\* A specification of shuffleDeck alone: the call is given a deck and the
\* draws of Math.random, copies the deck and runs its loop one iteration per
\* step.  `deck` is the caller's array, `shuffled` the copy the loop writes,
\* `given` what the caller passed.
MaxDeckLen == 5

\* The first n cards createDeck pushes.
FirstCards(n) == [k \in 1..n |-> k - 1]

\* Every choice of the swap indices for a deck of n cards: rnd[i] in 0..i.
AllDraws(n) == {rnd \in [1..(n - 1) -> 0..(n - 1)] : \A i \in 1..(n - 1) : rnd[i] <= i}

\* const shuffled = [...deck]; the loop starts at deck.length - 1.
shuffleDeckCall(deck, rnd) ==
  [given |-> deck, deck |-> deck, shuffled |-> deck, rnd |-> rnd, i |-> Len(deck) - 1]

\* Short decks with every choice of draws, and the deck createDeck builds
\* with the draws of RandomDraws.
ShuffleCalls ==
  UNION {{shuffleDeckCall(FirstCards(n), rnd) : rnd \in AllDraws(n)} : n \in 1..MaxDeckLen}
  \cup {shuffleDeckCall(OrderedDeck, rnd) : rnd \in RandomDraws}

InitDeck == InitGateway /\ shuffling \in ShuffleCalls

\* One iteration of the loop: swap shuffled[i] and shuffled[j], i--.
ShuffleStep ==
  /\ shuffling.i > 0
  /\ shuffling' = [shuffling EXCEPT
                     !.shuffled = Swap(@, shuffling.i, shuffling.rnd[shuffling.i]),
                     !.i = @ - 1]
  /\ UNCHANGED gatewayVars

NextDeck == ShuffleStep

SpecDeck == InitDeck /\ [][NextDeck]_vars

\* ------------------------------------------- handlers between their awaits
\* A specification in which the create-room and join-room handlers run one
\* stretch of code at a time: from one await to the next.  A storage method
\* called under an await reads and writes the store at the call; the code
\* after the await runs when the continuation is resumed.  Continuations are
\* resumed in the order in which they were suspended.
MaxRaceIntents == 3
MaxRace == 2

RaceCreates == {[socket |-> s, playerName |-> n] : s \in Sockets, n \in {<<"A", "n", "n">>, <<>>}}
RaceJoins ==
  {[socket |-> s, playerName |-> <<"A", "n", "n">>, roomCode |-> c] :
     s \in Sockets, c \in CodeInputs}

\* A handler suspended at its first await.  room, existingPlayer and
\* playerId hold what the storage calls returned (<<>> for undefined).
Suspended(kind, s, name, roomCode, st) ==
  [kind |-> kind, socket |-> s, playerName |-> name, roomCode |-> roomCode,
   pc |-> "lookup", resumed |-> FALSE, room |-> getRoomByCode(st, roomCode),
   existingPlayer |-> <<>>, playerId |-> <<>>,
   success |-> FALSE, error |-> "", player |-> <<>>,
   seated |-> <<>>, gameData |-> <<>>]

\* createRoom has drawn roomCode and called getRoomByCode.
createRoomCalled(st, data, roomCode) ==
  Suspended("create-room", data.socket, data.playerName, roomCode, st)

\* joinRoom has called getRoomByCode.
joinRoomCalled(st, data) ==
  Suspended("join-room", data.socket, data.playerName, data.roomCode, st)

\* What a stretch of code does: the store and id counters it leaves, the
\* memberships, what it emits, and the handler suspended again (<<>> when
\* the handler has ended).
Stretch(st, roomIds, ids, g, ev, h) ==
  [st |-> st, nextRoomId |-> roomIds, nextPlayerId |-> ids, groups |-> g,
   events |-> ev, next |-> h]

joinRoomFails(h, error) ==
  <<[h EXCEPT !.pc = "returned", !.success = FALSE, !.error = error]>>

joinRoomSucceeds(st, h) ==
  <<[h EXCEPT !.pc = "returned", !.success = TRUE,
              !.player = <<mapToPlayerState(st, h.playerId[1])>>]>>

\* getGameState(roomCode) and the game-state-updated emit that ends both
\* handlers, between the await at which h is suspended and the next one.
GameStateStretch(st, roomIds, ids, g, h) ==
  CASE h.pc = "stateRoom" ->
         IF h.room = <<>>
         THEN Stretch(st, roomIds, ids, g, <<>>, <<[h EXCEPT !.pc = "stateDone"]>>)
         ELSE Stretch(st, roomIds, ids, g, <<>>,
                      <<[h EXCEPT !.pc = "statePlayers",
                                  !.seated = getPlayersByRoomId(st, h.room[1])]>>)
    [] h.pc = "statePlayers" ->
         Stretch(st, roomIds, ids, g, <<>>,
                 <<[h EXCEPT !.pc = "stateDone",
                             !.gameData = <<gameStateOf(st, h.room[1], h.seated)>>]>>)
    [] h.pc = "stateDone" ->
         Stretch(st, roomIds, ids, g,
                 IF h.gameData = <<>> THEN <<>>
                 ELSE <<Emit("game-state-updated", Members(g, CodeKey(h.roomCode)),
                             h.gameData[1])>>,
                 <<>>)

\* The code of createRoom and of the create-room handler between the await
\* at which handler h is suspended and the next one.  `draw` is the code
\* generateRoomCode yields if this stretch calls it.
CreateRoomStretch(st, roomIds, ids, g, h, draw) ==
  LET s == h.socket IN
  CASE h.pc = "lookup" ->
         IF h.room # <<>>
         THEN Stretch(st, roomIds, ids, g, <<>>,
                      <<[h EXCEPT !.roomCode = draw, !.room = getRoomByCode(st, draw)]>>)
         ELSE Stretch(storageCreateRoom(st, roomIds + 1,
                        [code |-> h.roomCode, hostId |-> s, maxPlayers |-> RoomMaxPlayers]),
                      roomIds + 1, ids, g, <<>>,
                      <<[h EXCEPT !.pc = "roomCreated", !.room = <<roomIds + 1>>]>>)
    [] h.pc = "roomCreated" ->
         Stretch(createPlayer(st, ids + 1,
                   [roomId |-> h.room[1], socketId |-> s, name |-> h.playerName,
                    chips |-> StartingChips]),
                 roomIds, ids + 1, g, <<>>,
                 <<[h EXCEPT !.pc = "created", !.playerId = <<ids + 1>>]>>)
    [] h.pc = "created" ->
         Stretch(updateRoomPlayerCount(st, h.room[1], 1), roomIds, ids, g, <<>>,
                 <<[h EXCEPT !.pc = "counted"]>>)
    [] h.pc = "counted" ->
         Stretch(st, roomIds, ids, g, <<>>, <<[h EXCEPT !.pc = "returned", !.success = TRUE]>>)
    [] h.pc = "returned" ->
         Stretch(st, roomIds, ids, [g EXCEPT ![s] = @ \cup {CodeKey(h.roomCode)}],
                 <<Emit("room-created", {s},
                        [roomCode |-> h.roomCode, playerId |-> h.playerId[1]])>>,
                 <<[h EXCEPT !.pc = "stateRoom", !.room = getRoomByCode(st, h.roomCode)]>>)
    [] OTHER -> GameStateStretch(st, roomIds, ids, g, h)

\* The code of joinRoom and of the join-room handler between the await at
\* which handler h is suspended and the next one.
JoinRoomStretch(st, roomIds, ids, g, h) ==
  LET s == h.socket
      group == CodeKey(h.roomCode)
  IN
  CASE h.pc = "lookup" ->
         IF h.room = <<>>
         THEN Stretch(st, roomIds, ids, g, <<>>, joinRoomFails(h, "Room not found"))
         ELSE IF st.rooms[h.room[1]].currentPlayers >= st.rooms[h.room[1]].maxPlayers
         THEN Stretch(st, roomIds, ids, g, <<>>, joinRoomFails(h, "Room is full"))
         ELSE Stretch(st, roomIds, ids, g, <<>>,
                      <<[h EXCEPT !.pc = "existing",
                                  !.existingPlayer = getPlayerBySocketId(st, s)]>>)
    [] h.pc = "existing" ->
         IF h.existingPlayer # <<>> /\ st.players[h.existingPlayer[1]].roomId = h.room[1]
         THEN Stretch(setPlayerConnected(st, s, TRUE), roomIds, ids, g, <<>>,
                      <<[h EXCEPT !.pc = "connected", !.playerId = h.existingPlayer]>>)
         ELSE Stretch(createPlayer(st, ids + 1,
                        [roomId |-> h.room[1], socketId |-> s, name |-> h.playerName,
                         chips |-> StartingChips]),
                      roomIds, ids + 1, g, <<>>,
                      <<[h EXCEPT !.pc = "created", !.playerId = <<ids + 1>>]>>)
    [] h.pc = "connected" ->
         Stretch(st, roomIds, ids, g, <<>>, joinRoomSucceeds(st, h))
    [] h.pc = "created" ->
         Stretch(updateRoomPlayerCount(st, h.room[1], st.rooms[h.room[1]].currentPlayers + 1),
                 roomIds, ids, g, <<>>, <<[h EXCEPT !.pc = "counted"]>>)
    [] h.pc = "counted" ->
         Stretch(st, roomIds, ids, g, <<>>, joinRoomSucceeds(st, h))
    [] h.pc = "returned" ->
         IF h.success
         THEN LET joined == [g EXCEPT ![s] = @ \cup {group}] IN
              Stretch(st, roomIds, ids, joined,
                      <<Emit("room-joined", {s},
                             [roomCode |-> h.roomCode, playerId |-> h.playerId[1]]),
                        Emit("player-joined", Members(joined, group) \ {s},
                             [player |-> h.player[1]])>>,
                      <<[h EXCEPT !.pc = "stateRoom",
                                  !.room = getRoomByCode(st, h.roomCode)]>>)
         ELSE Stretch(st, roomIds, ids, g,
                      <<Emit("error", {s}, [message |-> h.error])>>, <<>>)
    [] OTHER -> GameStateStretch(st, roomIds, ids, g, h)

\* An event reaches its handler before any suspended handler has been
\* resumed; `intent` is recorded with the store the handlers started from.
Begin(s, intent) ==
  /\ Deliver(s, MaxRaceIntents)
  /\ Len(inflight) < MaxRace
  /\ \A k \in 1..Len(inflight) : ~inflight[k].resumed
  /\ UNCHANGED <<storeVars, nextRoomId, nextPlayerId, open, groups, ledger>>
  /\ raced' = IF inflight = <<>>
              THEN [store |-> Store, nextRoomId |-> nextRoomId,
                    nextPlayerId |-> nextPlayerId, intents |-> <<intent>>]
              ELSE [raced EXCEPT !.intents = Append(@, intent)]

\* The create-room handler parses the payload and calls createRoom, which
\* draws a code, calls getRoomByCode and is suspended.
CreateRoomBegin(data, draw) ==
  /\ Begin(data.socket, <<"create-room", data.socket, data.playerName>>)
  /\ IF ~ValidName(data.playerName)
     THEN /\ events' = <<Emit("error", {data.socket},
                              [message |-> "Invalid room creation data"])>>
          /\ inflight' = inflight
     ELSE /\ events' = <<>>
          /\ inflight' = Append(inflight, createRoomCalled(Store, data, draw))

\* The join-room handler parses the payload and calls joinRoom, which calls
\* getRoomByCode and is suspended.
JoinRoomBegin(data) ==
  /\ Begin(data.socket, <<"join-room", data.socket, data.playerName, data.roomCode>>)
  /\ IF ~(ValidName(data.playerName) /\ ValidCode(data.roomCode))
     THEN /\ events' = <<Emit("error", {data.socket}, [message |-> "Invalid room join data"])>>
          /\ inflight' = inflight
     ELSE /\ events' = <<>>
          /\ inflight' = Append(inflight, joinRoomCalled(Store, data))

\* The handler suspended first is resumed and runs to its next await.
Resume(draw) ==
  /\ inflight # <<>>
  /\ LET h == [Head(inflight) EXCEPT !.resumed = TRUE]
         done == IF h.kind = "create-room"
                 THEN CreateRoomStretch(Store, nextRoomId, nextPlayerId, groups, h, draw)
                 ELSE JoinRoomStretch(Store, nextRoomId, nextPlayerId, groups, h)
     IN /\ SetStore(done.st)
        /\ nextRoomId' = done.nextRoomId
        /\ nextPlayerId' = done.nextPlayerId
        /\ groups' = done.groups
        /\ events' = done.events
        /\ ledger' = LedgerKeep(done.st)
        /\ inflight' = Tail(inflight) \o done.next
  /\ UNCHANGED <<open, handled, shuffling, raced>>

NextRace ==
  \/ \E data \in RaceCreates, draw \in RoomCodes : CreateRoomBegin(data, draw)
  \/ \E data \in RaceJoins : JoinRoomBegin(data)
  \/ \E draw \in RoomCodes : Resume(draw)

SpecRace == Init /\ [][NextRace]_vars

\* ------------------------------------------------------------ properties
\* The player of socket s and its room, when both exist.
Seated(s) ==
  /\ getPlayerBySocketId(Store, s) # <<>>
  /\ Has(rooms, players[playersBySocket[s]].roomId)

PlayerOf(s) == playersBySocket[s]
RoomOf(s) == players[playersBySocket[s]].roomId

\* The last handler emitted player-action-made for `action`.
ActionMade(action) ==
  /\ events # <<>>
  /\ events[1].name = "player-action-made"
  /\ events[1].payload.action = action

LastError(message) ==
  /\ events # <<>>
  /\ events[1].name = "error"
  /\ events[1].payload.message = message

\* C1: in every reachable state, every live room's currentPlayers equals the
\* length of the store's player-id list for that room.
C1_PlayerCountMatchesList ==
  \A r \in DOMAIN rooms :
    /\ Has(playersByRoom, r)
    /\ rooms[r].currentPlayers = Len(playersByRoom[r])

\* A leave has just taken a room from three seats to two.
C1_Witness ==
  /\ events # <<>>
  /\ events[1].name = "player-left"
  /\ \E r \in DOMAIN rooms : rooms[r].currentPlayers = 2 /\ Len(playersByRoom[r]) = 2

\* C2: for every live room, pot equals the sum of the updatePlayerBet deltas
\* applied to that room's players since its last successful dealCards (or
\* since creation).
C2_PotIsSumOfBets ==
  \A r \in DOMAIN rooms : Has(ledger, r) /\ rooms[r].pot = ledger[r]

\* A dealt room in which a bet has been placed after the deal.
C2_Witness ==
  /\ \E a \in {"call", "raise", "all-in"} : ActionMade(a)
  /\ \E r \in DOMAIN rooms :
       rooms[r].gameState = "playing" /\ rooms[r].pot # 0 /\ ledger[r] = rooms[r].pot

\* C3: in every reachable state every stored player has chips >= 0.
C3_ChipsNonNegative ==
  \A p \in DOMAIN players : players[p].chips >= 0

\* A player has bet the whole stack.
C3_Witness ==
  /\ ActionMade("all-in")
  /\ \E p \in DOMAIN players : players[p].chips = 0 /\ players[p].currentBet = StartingChips

\* C4: in every reachable state every live room has pot >= 0 and
\* currentBet >= 0 and every player has currentBet >= 0, also after a
\* dealCards issued over outstanding bets and followed by a call or raise.
C4_BetsNonNegative ==
  /\ \A r \in DOMAIN rooms : rooms[r].pot >= 0 /\ rooms[r].currentBet >= 0
  /\ \A p \in DOMAIN players : players[p].currentBet >= 0

\* A refused call returns the store it was given.
Untouched(result) == ~result.success => result.st = Store

\* C5: every session-manager call that returns success = false leaves the
\* whole store (rooms, players, both indexes) as it was before the call:
\* checked for every call on every reachable store.
C5_FailureLeavesStore ==
  /\ \A s \in Sockets, code \in CodeInputs :
       Untouched(joinRoom(Store, s, <<"A", "n", "n">>, code, nextPlayerId + 1))
  /\ \A s \in Sockets : Untouched(leaveRoom(Store, s))
  /\ \A r \in 1..(nextRoomId + 1), rnd \in RandomDraws :
       Untouched(dealCards(Store, r, rnd))
  /\ \A s \in Sockets, data \in ActionPayloads :
       Untouched(handlePlayerAction(Store, s, data.action, data.amount))

\* A raise has just been refused for lack of chips, in a room with a bet
\* outstanding.
C5_Witness ==
  /\ LastError("Insufficient chips to raise")
  /\ \E r \in DOMAIN rooms : rooms[r].pot > 0

\* C6: raise succeeds exactly when amount is present, amount >
\* room.currentBet and amount <= player.chips; on success, with c the
\* player's currentBet before, the player's currentBet becomes amount, chips
\* decrease by amount - c, pot increases by amount - c, room.currentBet
\* becomes amount and hasActed becomes true.
C6_Raise ==
  \A s \in Sockets, amount \in AmountInputs \cup {<<-100>>} :
    Seated(s) =>
      LET p == PlayerOf(s)
          r == RoomOf(s)
          result == handlePlayerAction(Store, s, "raise", amount)
          c == players[p].currentBet
      IN /\ result.success <=>
              (amount # <<>> /\ amount[1] > rooms[r].currentBet
                             /\ amount[1] <= players[p].chips)
         /\ result.success =>
              /\ result.st.players[p].currentBet = amount[1]
              /\ result.st.players[p].chips = players[p].chips - (amount[1] - c)
              /\ result.st.rooms[r].pot = rooms[r].pot + (amount[1] - c)
              /\ result.st.rooms[r].currentBet = amount[1]
              /\ result.st.players[p].hasActed

\* A player that had already bet 100 has just raised to 200.
C6_Witness ==
  /\ ActionMade("raise")
  /\ events[1].payload.amount = <<200>>
  /\ LET p == events[1].payload.playerId
     IN /\ Has(players, p)
        /\ players[p].chips = 800
        /\ players[p].currentBet = 200
        /\ players[p].hasActed
        /\ Has(rooms, players[p].roomId)
        /\ rooms[players[p].roomId].currentBet = 200
        /\ rooms[players[p].roomId].pot = 200

\* C7: call succeeds exactly when the shortfall room.currentBet -
\* player.currentBet is at most player.chips; on success the player pays
\* that shortfall, ends with currentBet equal to room.currentBet and
\* hasActed, and room.currentBet is unchanged.
C7_Call ==
  \A s \in Sockets :
    Seated(s) =>
      LET p == PlayerOf(s)
          r == RoomOf(s)
          result == handlePlayerAction(Store, s, "call", <<>>)
          shortfall == rooms[r].currentBet - players[p].currentBet
      IN /\ result.success <=> shortfall <= players[p].chips
         /\ result.success =>
              /\ result.st.players[p].chips = players[p].chips - shortfall
              /\ result.st.rooms[r].pot = rooms[r].pot + shortfall
              /\ result.st.players[p].currentBet = result.st.rooms[r].currentBet
              /\ result.st.players[p].hasActed
              /\ result.st.rooms[r].currentBet = rooms[r].currentBet

\* A player has just called another player's raise to 100.
C7_Witness ==
  /\ ActionMade("call")
  /\ LET p == events[1].payload.playerId
     IN /\ Has(players, p)
        /\ players[p].chips = 900
        /\ players[p].currentBet = 100
        /\ Has(rooms, players[p].roomId)
        /\ rooms[players[p].roomId].currentBet = 100
        /\ rooms[players[p].roomId].pot = 200

\* C8: all-in always succeeds for a seated player: it bets the whole stack
\* (chips become 0, player.currentBet and pot grow by it), sets hasActed,
\* and raises room.currentBet to the stack when the stack exceeds it
\* (otherwise room.currentBet is unchanged).
C8_AllIn ==
  \A s \in Sockets :
    Seated(s) =>
      LET p == PlayerOf(s)
          r == RoomOf(s)
          result == handlePlayerAction(Store, s, "all-in", <<>>)
          stack == players[p].chips
      IN /\ result.success
         /\ result.st.players[p].chips = 0
         /\ result.st.players[p].currentBet = players[p].currentBet + stack
         /\ result.st.rooms[r].pot = rooms[r].pot + stack
         /\ result.st.players[p].hasActed
         /\ result.st.rooms[r].currentBet =
              IF stack > rooms[r].currentBet THEN stack ELSE rooms[r].currentBet

\* C9: check succeeds exactly when room.currentBet <= player.currentBet; on
\* success it sets only the player's hasActed; otherwise it fails and
\* nothing changes.
C9_Check ==
  \A s \in Sockets :
    Seated(s) =>
      LET p == PlayerOf(s)
          r == RoomOf(s)
          result == handlePlayerAction(Store, s, "check", <<>>)
      IN /\ result.success <=> rooms[r].currentBet <= players[p].currentBet
         /\ result.success => result.st = [Store EXCEPT !.players[p].hasActed = TRUE]
         /\ ~result.success => result.st = Store

\* A check has just been refused because a bet is pending.
C9_Witness ==
  /\ LastError("Cannot check when there is a bet to call")
  /\ \E s \in Sockets :
       Seated(s) /\ rooms[RoomOf(s)].currentBet > players[PlayerOf(s)].currentBet

\* C10: fold succeeds for any player whose room exists, in any phase; it
\* sets that player's isFolded and leaves everything else unchanged.
C10_Fold ==
  \A s \in Sockets :
    Seated(s) =>
      LET p == PlayerOf(s)
          result == handlePlayerAction(Store, s, "fold", <<>>)
      IN /\ result.success
         /\ result.st = [Store EXCEPT !.players[p].isFolded = TRUE]

\* A player has just folded in a room that was never dealt, after betting.
C10_Witness ==
  /\ ActionMade("fold")
  /\ LET p == events[1].payload.playerId
     IN /\ Has(players, p)
        /\ players[p].isFolded
        /\ players[p].currentBet > 0
        /\ Has(rooms, players[p].roomId)
        /\ rooms[players[p].roomId].gameState = "waiting"

\* Socket s has a player record seated in the live room with code `code`.
SeatedIn(s, code) ==
  /\ Seated(s)
  /\ rooms[RoomOf(s)].code = code

\* C11: joinRoom by a connection already seated in the target room returns
\* success with the existing player's id, creates no player record, leaves
\* currentPlayers unchanged and marks the player connected, in every state
\* of the room (a room at maxPlayers included).
C11_RejoinIdempotent ==
  \A s \in Sockets, code \in RoomCodes :
    SeatedIn(s, code) =>
      LET p == PlayerOf(s)
          r == RoomOf(s)
          result == joinRoom(Store, s, <<"A", "n", "n">>, code, nextPlayerId + 1)
      IN /\ result.success
         /\ result.playerId = <<p>>
         /\ DOMAIN result.st.players = DOMAIN players
         /\ result.st.rooms[r].currentPlayers = rooms[r].currentPlayers
         /\ result.st.players[p].isConnected

\* C12: joinRoom fails with 'Room is full' whenever the room's
\* currentPlayers >= maxPlayers, and every live room has currentPlayers <=
\* maxPlayers = 6.
C12_RoomNeverOverfull ==
  /\ \A r \in DOMAIN rooms :
       rooms[r].maxPlayers = RoomMaxPlayers /\ rooms[r].currentPlayers <= rooms[r].maxPlayers
  /\ \A s \in Sockets, code \in RoomCodes :
       LET found == getRoomByCode(Store, code)
           result == joinRoom(Store, s, <<"A", "n", "n">>, code, nextPlayerId + 1)
       IN (found # <<>> /\ rooms[found[1]].currentPlayers >= rooms[found[1]].maxPlayers)
            => (~result.success /\ result.error = "Room is full")

\* A join has just been refused by a room that holds six players.
C12_Witness ==
  /\ LastError("Room is full")
  /\ \E r \in DOMAIN rooms : rooms[r].currentPlayers = RoomMaxPlayers

C14_NoPlayerWithoutRoom ==
  /\ \A p \in DOMAIN players : Has(rooms, players[p].roomId)
  /\ \A s \in DOMAIN playersBySocket :
       /\ Has(players, playersBySocket[s])
       /\ Has(rooms, players[playersBySocket[s]].roomId)

\* C15: a successful dealCards on a room with n seated players gives every
\* seated player a hand of exactly 4 cards and stores on the room a
\* remaining deck of exactly 52 - 4 * n cards and an empty community-card
\* set.
C15_DealCounts ==
  \A r \in DOMAIN rooms, rnd \in RandomDraws :
    LET result == dealCards(Store, r, rnd)
        seated == getPlayersByRoomId(Store, r)
        n == Len(seated)
    IN result.success =>
         /\ \A k \in 1..n :
              /\ result.st.players[seated[k]].hand # <<>>
              /\ Len(result.st.players[seated[k]].hand[1]) = 4
         /\ result.st.rooms[r].deck # <<>>
         /\ Len(result.st.rooms[r].deck[1]) = 52 - 4 * n
         /\ result.st.rooms[r].communityCards = <<(<<>>)>>

\* A room of three seated players has been dealt: 40 cards remain.
C15_Witness ==
  \E r \in DOMAIN rooms :
    /\ Len(getPlayersByRoomId(Store, r)) = 3
    /\ rooms[r].deck # <<>>
    /\ Len(rooms[r].deck[1]) = 40
    /\ rooms[r].communityCards = <<(<<>>)>>
    /\ \A k \in 1..3 :
         LET hand == players[getPlayersByRoomId(Store, r)[k]].hand
         IN hand # <<>> /\ Len(hand[1]) = 4

\* C16: after a successful dealCards the room's phase is 'betting', its
\* round is 'pre-flop', its pot is 0 and its currentBet is 0.
C16_DealPhase ==
  \A r \in DOMAIN rooms, rnd \in RandomDraws :
    LET result == dealCards(Store, r, rnd)
    IN result.success =>
         /\ result.st.rooms[r].gameState = "betting"
         /\ result.st.rooms[r].round = "pre-flop"
         /\ result.st.rooms[r].pot = 0
         /\ result.st.rooms[r].currentBet = 0

\* C17: after every successful dealCards every player seated in the room
\* has hasActed = false, isFolded = false and currentBet = 0, whatever those
\* fields were before the deal.
C17_DealResetsPlayers ==
  \A r \in DOMAIN rooms, rnd \in RandomDraws :
    LET result == dealCards(Store, r, rnd)
        seated == getPlayersByRoomId(Store, r)
    IN result.success =>
         \A k \in 1..Len(seated) :
           /\ ~result.st.players[seated[k]].hasActed
           /\ ~result.st.players[seated[k]].isFolded
           /\ result.st.players[seated[k]].currentBet = 0

\* C18: dealCards fails when the room does not exist or fewer than 2
\* players are seated; the room's phase, round, pot, currentBet and deck and
\* every player's hand are then unchanged.
C18_DealRefused ==
  \A r \in 1..(nextRoomId + 1), rnd \in RandomDraws :
    LET result == dealCards(Store, r, rnd)
    IN (getRoomById(Store, r) = <<>> \/ Len(getPlayersByRoomId(Store, r)) < 2) =>
         /\ ~result.success
         /\ DOMAIN result.st.rooms = DOMAIN rooms
         /\ \A q \in DOMAIN rooms :
              /\ result.st.rooms[q].gameState = rooms[q].gameState
              /\ result.st.rooms[q].round = rooms[q].round
              /\ result.st.rooms[q].pot = rooms[q].pot
              /\ result.st.rooms[q].currentBet = rooms[q].currentBet
              /\ result.st.rooms[q].deck = rooms[q].deck
         /\ DOMAIN result.st.players = DOMAIN players
         /\ \A p \in DOMAIN players : result.st.players[p].hand = players[p].hand

\* A deal has just been refused in a room with a single seated player.
C18_Witness ==
  /\ LastError("Need at least 2 players to deal cards")
  /\ \E s \in Sockets :
       /\ Seated(s)
       /\ Len(getPlayersByRoomId(Store, RoomOf(s))) = 1
       /\ rooms[RoomOf(s)].gameState = "waiting"
       /\ rooms[RoomOf(s)].deck = <<>>
       /\ players[PlayerOf(s)].hand = <<>>

\* C19: dealCards leaves every player's chips unchanged, and also the
\* room's player count, the seated players and each player's isConnected
\* and isReady flags.
C19_DealFrame ==
  \A r \in DOMAIN rooms, rnd \in RandomDraws :
    LET result == dealCards(Store, r, rnd)
    IN /\ DOMAIN result.st.players = DOMAIN players
       /\ \A p \in DOMAIN players :
            /\ result.st.players[p].chips = players[p].chips
            /\ result.st.players[p].isConnected = players[p].isConnected
            /\ result.st.players[p].isReady = players[p].isReady
            /\ result.st.players[p].roomId = players[p].roomId
       /\ result.st.rooms[r].currentPlayers = rooms[r].currentPlayers
       /\ getPlayersByRoomId(result.st, r) = getPlayersByRoomId(Store, r)
       /\ result.st.playersByRoom = playersByRoom
       /\ result.st.playersBySocket = playersBySocket

\* A room of two has been dealt after one of its players had bet 100: that
\* player holds a hand and still has 900 chips.
C19_Witness ==
  \E s \in Sockets :
    /\ Seated(s)
    /\ rooms[RoomOf(s)].gameState = "playing"
    /\ rooms[RoomOf(s)].currentPlayers = 2
    /\ players[PlayerOf(s)].hand # <<>>
    /\ players[PlayerOf(s)].chips = 900
    /\ players[PlayerOf(s)].isConnected

\* What a snapshot of room r is taken from: the room record and the records
\* of its seated players.
RoomContent(st, r) ==
  <<st.rooms[r],
    [k \in 1..Len(getPlayersByRoomId(st, r)) |-> st.players[getPlayersByRoomId(st, r)[k]]]>>

\* The events carry a game-state-updated with the snapshot of the room with
\* code `code` in store st, sent to every socket in that code's group.
SnapshotSent(ev, st, g, code) ==
  \E k \in 1..Len(ev) :
    /\ ev[k].name = "game-state-updated"
    /\ ev[k].to = Members(g, CodeKey(code))
    /\ <<ev[k].payload>> = getGameState(st, CodeKey(code))

\* C20: after every successful mutating intent (create-room, join-room, a
\* leave-room that leaves the room alive, player-ready, deal-cards,
\* player-action, disconnect) the gateway emits game-state-updated with the
\* snapshot after the operation to every connection in the room's
\* broadcast group: every step that creates or changes a room that is
\* live after it emits that event.
C20_SnapshotAfterMutation ==
  [][\A r \in DOMAIN rooms' :
       (~Has(rooms, r) \/ RoomContent(Store, r) # RoomContent(Store', r))
         => SnapshotSent(events', Store', groups', rooms'[r].code)]_vars

\* The step is an intent of socket s whose session-manager operation fails
\* (a lookup that finds no player for s counted as a failure).
FailedIntent(s) ==
  \/ \E code \in CodeInputs :
       /\ JoinRoomIntent(s, <<"A", "n", "n">>, code)
       /\ ValidCode(code)
       /\ ~joinRoom(Store, s, <<"A", "n", "n">>, code, nextPlayerId + 1).success
  \/ LeaveRoomIntent(s) /\ ~leaveRoom(Store, s).success
  \/ \E rnd \in RandomDraws :
       /\ DealCardsIntent(s, rnd)
       /\ \/ getPlayerBySocketId(Store, s) = <<>>
          \/ ~dealCards(Store, RoomOf(s), rnd).success
  \/ \E data \in ActionPayloads :
       /\ PlayerActionIntent(s, data.action, data.amount)
       /\ ValidAction(data.action)
       /\ ~handlePlayerAction(Store, s, data.action, data.amount).success

\* The events are one error event, sent to socket s alone.
OneErrorTo(ev, s) ==
  /\ Len(ev) = 1
  /\ ev[1].name = "error"
  /\ ev[1].to = {s}

\* C21: every inbound intent whose session-manager operation fails
\* (leave-room, deal-cards and player-action by a connection without a
\* player and leave-room failing with room-not-found included) results in
\* exactly one error event, sent to the originating connection only.
C21_FailureEmitsOneError ==
  [][\A s \in Sockets : FailedIntent(s) => OneErrorTo(events', s)]_vars

\* The open sockets whose player record is seated in room r of store st.
ConnectionsOf(st, r) ==
  {t \in open : /\ getPlayerBySocketId(st, t) # <<>>
                /\ st.players[st.playersBySocket[t]].roomId = r}

\* The events of a successful join-room by socket s into room r.
JoinEvents(ev, st, s, r, roomCode, playerId) ==
  /\ Len(ev) = 3
  /\ ev[1].name = "room-joined"
  /\ ev[1].to = {s}
  /\ ev[1].payload = [roomCode |-> roomCode, playerId |-> playerId]
  /\ ev[2].name = "player-joined"
  /\ s \notin ev[2].to
  /\ ConnectionsOf(st, r) \ {s} \subseteq ev[2].to
  /\ ev[3].name = "game-state-updated"
  /\ s \in ev[3].to
  /\ ConnectionsOf(st, r) \subseteq ev[3].to

\* The events of a successful create-room by socket s.
CreateEvents(ev, s) ==
  /\ Len(ev) = 2
  /\ ev[1].name = "room-created"
  /\ ev[1].to = {s}
  /\ ev[2].name = "game-state-updated"
  /\ s \in ev[2].to

\* C22: a successful join-room emits, in this order, room-joined to the
\* joiner only, player-joined to every other connection of the room and not
\* to the joiner, then game-state-updated to the whole room, the joiner
\* included; a successful create-room emits room-created to the creator
\* only and then game-state-updated.
C22_JoinAndCreateEvents ==
  [][\A s \in Sockets :
       /\ \A code \in RoomCodes :
            LET result == joinRoom(Store, s, <<"A", "n", "n">>, code, nextPlayerId + 1)
            IN (result.success /\ JoinRoomIntent(s, <<"A", "n", "n">>, code))
                 => JoinEvents(events', Store', s, getRoomByCode(Store, code)[1],
                               code, result.playerId[1])
       /\ \A draws \in CodeDraws :
            CreateRoomIntent(s, <<"A", "n", "n">>, draws) => CreateEvents(events', s)]_vars

\* A second connection has just joined a room: the first one got
\* player-joined and both got the snapshot.
C22_Witness ==
  /\ Len(events) = 3
  /\ events[1].name = "room-joined"
  /\ events[2].name = "player-joined"
  /\ events[2].to # {}
  /\ events[1].to \cap events[2].to = {}
  /\ events[3].name = "game-state-updated"
  /\ events[3].to = events[1].to \cup events[2].to

\* The events hold an event `name` delivered to every connection of room r.
Delivered(ev, name, st, r) ==
  \E k \in 1..Len(ev) : ev[k].name = name /\ ConnectionsOf(st, r) \subseteq ev[k].to

\* C23: every successful deal-cards intent is followed by a cards-dealt
\* event and a betting-round-started event delivered to the connections of
\* the room, and every successful player-action by a player-action-made
\* event delivered to the connections of the room.
C23_DealAndActionEvents ==
  [][\A s \in Sockets :
       Seated(s) =>
         /\ \A rnd \in RandomDraws :
              (dealCards(Store, RoomOf(s), rnd).success /\ DealCardsIntent(s, rnd))
                => /\ Delivered(events', "cards-dealt", Store', RoomOf(s))
                   /\ Delivered(events', "betting-round-started", Store', RoomOf(s))
         /\ \A data \in ActionPayloads :
              (/\ ValidAction(data.action)
               /\ handlePlayerAction(Store, s, data.action, data.amount).success
               /\ PlayerActionIntent(s, data.action, data.amount))
                => Delivered(events', "player-action-made", Store', RoomOf(s))]_vars

\* The step rejected the payload of socket s: no store change, no id
\* drawn, no group joined, one error event to s, which stays connected.
Rejected(s) ==
  /\ UNCHANGED <<storeVars, nextRoomId, nextPlayerId, groups>>
  /\ OneErrorTo(events', s)
  /\ s \in open'

BadName(name) == Len(name) = 0 \/ Len(name) > 20
BadCode(code) == StrLen(code) # 6
BadAction(action) == action \notin {"check", "call", "raise", "fold", "all-in"}

\* C24: a create-room, join-room or player-action intent whose payload
\* does not match its schema (empty or over-long name, room code not of
\* length 6, action outside check, call, raise, fold, all-in) causes no
\* store change and yields exactly one error event to the sending
\* connection, which stays connected.
C24_MalformedPayload ==
  [][\A s \in Sockets :
       /\ \A name \in NameInputs, draws \in CodeDraws :
            (BadName(name) /\ CreateRoomIntent(s, name, draws)) => Rejected(s)
       /\ \A name \in NameInputs, code \in CodeInputs :
            ((BadName(name) \/ BadCode(code)) /\ JoinRoomIntent(s, name, code))
              => Rejected(s)
       /\ \A action \in ActionInputs, amount \in AmountInputs :
            (BadAction(action) /\ PlayerActionIntent(s, action, amount)) => Rejected(s)]_vars

\* A seated connection has just had a player-action payload rejected.
C24_Witness ==
  /\ LastError("Invalid player action")
  /\ \E s \in open : events[1].to = {s} /\ Seated(s)

\* The positions in the player list of room r of the players that are
\* connected, not folded and have not acted.
Eligible(r) ==
  {k \in 1..Len(getPlayersByRoomId(Store, r)) :
     LET player == players[getPlayersByRoomId(Store, r)[k]]
     IN player.isConnected /\ ~player.isFolded /\ ~player.hasActed}

\* C26: in every snapshot returned by getGameState, activePlayerId is the
\* id of the first player, in the room's player-list order, that is
\* connected, not folded and has not acted; it is undefined exactly when
\* there is no such player.
C26_ActivePlayer ==
  \A code \in RoomCodes :
    LET snapshot == getGameState(Store, CodeKey(code)) IN
    snapshot # <<>> =>
      LET r == getRoomByCode(Store, code)[1]
          active == snapshot[1].gameState.activePlayerId
      IN /\ active = <<>> <=> Eligible(r) = {}
         /\ Eligible(r) # {} =>
              /\ active = <<getPlayersByRoomId(Store, r)[SetMin(Eligible(r))]>>
              /\ \A k \in 1..(SetMin(Eligible(r)) - 1) :
                   LET player == players[getPlayersByRoomId(Store, r)[k]]
                   IN ~player.isConnected \/ player.isFolded \/ player.hasActed

\* In a room of two the first player has folded and the snapshot names the
\* second one.
C26_Witness ==
  \E code \in RoomCodes :
    /\ getGameState(Store, CodeKey(code)) # <<>>
    /\ LET seated == getPlayersByRoomId(Store, getRoomByCode(Store, code)[1])
       IN /\ Len(seated) = 2
          /\ players[seated[1]].isFolded
          /\ players[seated[1]].isConnected
          /\ ~players[seated[1]].hasActed
          /\ getGameState(Store, CodeKey(code))[1].gameState.activePlayerId = <<seated[2]>>

\* C27: no two live rooms have the same code: createRoom only stores a room
\* under a code for which the lookup by code missed at the moment of
\* creation.
C27_UniqueRoomCodes ==
  /\ \A r1 \in DOMAIN rooms, r2 \in DOMAIN rooms :
       r1 # r2 => rooms[r1].code # rooms[r2].code
  /\ \A draws \in CodeDraws :
       DrawsEndLoop(Store, draws) => getRoomByCode(Store, uniqueRoomCode(Store, draws)) = <<>>

\* A store with its id counters.
Outcome(st, roomIds, ids) == [st |-> st, nextRoomId |-> roomIds, nextPlayerId |-> ids]

\* What one intent leaves when its handler runs to its end from outcome o:
\* one outcome for join-room, one per code the loop of createRoom can stop
\* at for create-room.
AfterAlone(o, intent) ==
  IF intent[1] = "create-room"
  THEN IF ~ValidName(intent[3]) THEN {o}
       ELSE {Outcome(createRoom(o.st, intent[2], intent[3], code,
                                o.nextRoomId + 1, o.nextPlayerId + 1).st,
                     o.nextRoomId + 1, o.nextPlayerId + 1) :
               code \in {c \in RoomCodes : getRoomByCode(o.st, c) = <<>>}}
  ELSE IF ~(ValidName(intent[3]) /\ ValidCode(intent[4])) THEN {o}
       ELSE {Outcome(joinRoom(o.st, intent[2], intent[3], intent[4], o.nextPlayerId + 1).st,
                     o.nextRoomId,
                     IF joinRoomCreates(o.st, intent[2], intent[4])
                     THEN o.nextPlayerId + 1 ELSE o.nextPlayerId)}

\* The outcomes of running `intents` one after the other in the order
\* `order`, from any of the outcomes `from`.
RECURSIVE AfterSerial(_, _, _)
AfterSerial(from, intents, order) ==
  IF order = <<>> THEN from
  ELSE AfterSerial(UNION {AfterAlone(o, intents[Head(order)]) : o \in from},
                   intents, Tail(order))

SerialOrders(n) == {p \in [1..n -> 1..n] : \A k, l \in 1..n : k # l => p[k] # p[l]}

\* C25: the handlers of intents that interleave at their awaits leave the
\* store that running the same intents one after the other, in some order,
\* leaves.
C25_SerialEquivalent ==
  [][(inflight # <<>> /\ inflight' = <<>>) =>
       \E order \in SerialOrders(Len(raced.intents)) :
         \E o \in AfterSerial({Outcome(raced.store, raced.nextRoomId, raced.nextPlayerId)},
                              raced.intents, order) :
           Store' = o.st]_vars

\* Array a holds the elements of array b, each as often as b does.
IsPermutation(a, b) ==
  /\ Len(a) = Len(b)
  /\ \A k \in 1..Len(b) :
       Cardinality({l \in 1..Len(a) : a[l] = b[k]}) =
       Cardinality({l \in 1..Len(b) : b[l] = b[k]})

\* The loop of the shuffleDeck call has ended: it returns `shuffled`.
Returned == shuffling.i <= 0

\* C28: createDeck returns 52 cards in which each (suit, value) pair occurs
\* exactly once and whose ids are pairwise distinct; shuffleDeck returns a
\* permutation of its input for every choice of the swap indices and does
\* not modify its input.
C28_DeckAndShuffle ==
  /\ shuffling.deck = shuffling.given
  /\ Returned =>
       /\ IsPermutation(shuffling.shuffled, shuffling.given)
       /\ shuffling.shuffled = shuffleDeck(shuffling.given, shuffling.rnd)
  /\ (Returned /\ shuffling.given = OrderedDeck) =>
       LET deck == shuffling.shuffled IN
         /\ deck = createDeck(shuffling.rnd)
         /\ Len(deck) = 52
         /\ \A su \in 1..Len(Suits), va \in 1..Len(Values) :
              Cardinality({k \in 1..Len(deck) :
                             /\ CardSuit(deck[k]) = Suits[su]
                             /\ CardValue(deck[k]) = Values[va]}) = 1
         /\ \A k, l \in 1..Len(deck) : k # l => CardId(deck[k]) # CardId(deck[l])

\* The deck createDeck builds has been shuffled to the end and cards moved.
C28_Witness ==
  /\ Returned
  /\ shuffling.given = OrderedDeck
  /\ shuffling.shuffled # shuffling.given

\* C29: every player's hand holds either 0 or 4 cards, and a player holds
\* a non-empty hand only while its room exists and the room's phase is one
\* of playing, betting or showdown.
C29_HandOnlyInPlay ==
  \A p \in DOMAIN players :
    LET cards == IF players[p].hand = <<>> THEN <<>> ELSE players[p].hand[1] IN
    /\ Len(cards) \in {0, 4}
    /\ Len(cards) # 0 =>
         /\ Has(rooms, players[p].roomId)
         /\ rooms[players[p].roomId].gameState \in {"playing", "betting", "showdown"}

\* C30: for every player, chips + currentBet never increases across any
\* sequence of betting actions between two deals.
C30_StakeNeverGrows ==
  [][\A p \in DOMAIN players :
       Has(players', p) =>
         players'[p].chips + players'[p].currentBet <= players[p].chips + players[p].currentBet]_vars

\* A player that had bet has just called: its chips and bet still add up
\* to the starting stack.
C30_Witness ==
  /\ ActionMade("call")
  /\ LET p == events[1].payload.playerId
     IN /\ Has(players, p)
        /\ players[p].currentBet = 200
        /\ players[p].chips + players[p].currentBet = StartingChips

\* C31: no room advances past pre-flop and no hand ends: every live room
\* has round 'pre-flop', every successful handlePlayerAction returns with
\* roundEnded, gameEnded and winners unset, and no round-ended or
\* game-ended event is emitted.
C31_NeverPastPreFlop ==
  /\ \A r \in DOMAIN rooms : rooms[r].round = "pre-flop"
  /\ \A s \in Sockets, data \in ActionPayloads :
       LET result == handlePlayerAction(Store, s, data.action, data.amount) IN
       result.success =>
         /\ result.roundEnded = <<>>
         /\ result.gameEnded = <<>>
         /\ result.winners = <<>>
  /\ \A k \in 1..Len(events) : events[k].name \notin {"round-ended", "game-ended"}

\* In a dealt room every seated player has acted or folded, the last one
\* just now, and the round is still pre-flop.
C31_Witness ==
  /\ events # <<>>
  /\ events[1].name = "player-action-made"
  /\ \E r \in DOMAIN rooms :
       /\ rooms[r].gameState = "playing"
       /\ rooms[r].round = "pre-flop"
       /\ Len(playersByRoom[r]) >= 2
       /\ \A k \in 1..Len(playersByRoom[r]) :
            players[playersByRoom[r][k]].hasActed \/ players[playersByRoom[r][k]].isFolded

\* C32: a disconnect of a seated connection changes only that player's
\* isConnected flag, to false: the player stays seated, the room and its
\* count stay as they are, and the player's hand, chips, currentBet,
\* hasActed and isFolded are unchanged; the room is kept even when all of
\* its players are disconnected.
C32_DisconnectFrame ==
  [][\A s \in Sockets :
       (s \in open /\ s \notin open' /\ Seated(s)) =>
         LET p == PlayerOf(s)
             r == RoomOf(s)
         IN /\ Store' = [Store EXCEPT !.players[p].isConnected = FALSE]
            /\ ~players'[p].isConnected
            /\ Has(rooms', r)
            /\ rooms'[r] = rooms[r]
            /\ playersByRoom'[r] = playersByRoom[r]
            /\ getPlayerBySocketId(Store', s) = <<p>>
            /\ players'[p].hand = players[p].hand
            /\ players'[p].chips = players[p].chips
            /\ players'[p].currentBet = players[p].currentBet
            /\ players'[p].hasActed = players[p].hasActed
            /\ players'[p].isFolded = players[p].isFolded]_vars

\* The last connected player of a dealt room has just disconnected; the
\* room is still there and its players hold their hands.
C32_Witness ==
  /\ events # <<>>
  /\ events[1].name = "player-disconnected"
  /\ open = {}
  /\ \E r \in DOMAIN rooms :
       /\ rooms[r].gameState = "playing"
       /\ rooms[r].currentPlayers = 2
       /\ \A k \in 1..Len(playersByRoom[r]) :
            /\ ~players[playersByRoom[r][k]].isConnected
            /\ players[playersByRoom[r][k]].hand # <<>>

\* Room b is live after the step with the record, the player list and the
\* player records it had before.
RoomUntouched(b) ==
  /\ Has(rooms', b)
  /\ rooms'[b] = rooms[b]
  /\ Has(playersByRoom', b)
  /\ playersByRoom'[b] = playersByRoom[b]
  /\ \A k \in 1..Len(playersByRoom[b]) :
       /\ Has(players', playersByRoom[b][k])
       /\ players'[playersByRoom[b][k]] = players[playersByRoom[b][k]]

\* The step is an intent of socket s that does not target room b: a
\* create-room, a join-room for the code of another room, or any other
\* intent while the player of s is not in b.
TargetsAnotherRoom(s, b) ==
  \/ \E data \in CreatePayloads : CreateRoomIntent(s, data.playerName, data.draws)
  \/ \E data \in JoinPayloads :
       /\ JoinRoomIntent(s, data.playerName, data.roomCode)
       /\ getRoomByCode(Store, data.roomCode) # <<b>>
  \/ /\ ~(getPlayerBySocketId(Store, s) # <<>> /\ players[playersBySocket[s]].roomId = b)
     /\ \/ LeaveRoomIntent(s)
        \/ PlayerReadyIntent(s)
        \/ \E rnd \in RandomDraws : DealCardsIntent(s, rnd)
        \/ \E data \in ActionPayloads : PlayerActionIntent(s, data.action, data.amount)
        \/ DisconnectIntent(s)

\* C33: no cross-room coupling: an operation that targets one room leaves
\* every other live room's record, player list and player records
\* unchanged.
C33_NoCrossRoomCoupling ==
  [][\A s \in Sockets, b \in DOMAIN rooms :
       TargetsAnotherRoom(s, b) => RoomUntouched(b)]_vars

\* A raise has just been made in a dealt room while another room is live
\* with its pot and current bet at 0.
C33_Witness ==
  /\ ActionMade("raise")
  /\ \E a \in DOMAIN rooms, b \in DOMAIN rooms :
       /\ a # b
       /\ rooms[a].gameState = "playing"
       /\ rooms[a].currentBet > 0
       /\ rooms[b].currentBet = 0
       /\ rooms[b].pot = 0
       /\ Len(playersByRoom[b]) >= 1

\* The player of socket s may act: its room is in a dealt hand, it has not
\* folded and it is the room's active player.
EligibleToAct(s) ==
  /\ Seated(s)
  /\ rooms[RoomOf(s)].gameState # "waiting"
  /\ ~players[PlayerOf(s)].isFolded
  /\ getActivePlayerId(Store, getPlayersByRoomId(Store, RoomOf(s))) = <<PlayerOf(s)>>

\* C34: handlePlayerAction changes state only for a player that is eligible
\* to act; an action of any other player is rejected and leaves the store
\* as it was.
C34_TurnEligibility ==
  \A s \in Sockets, data \in ActionPayloads :
    LET result == handlePlayerAction(Store, s, data.action, data.amount) IN
    ~EligibleToAct(s) => ~result.success /\ result.st = Store

\* The sums of currentBet and of chips over the players seated in room r.
BetsOf(r) ==
  SeqSum([k \in 1..Len(getPlayersByRoomId(Store, r)) |->
            players[getPlayersByRoomId(Store, r)[k]].currentBet])

ChipsOf(r) ==
  SeqSum([k \in 1..Len(getPlayersByRoomId(Store, r)) |->
            players[getPlayersByRoomId(Store, r)[k]].chips])

\* C35: in every live room the pot equals the sum of currentBet over the
\* players seated in it, and pot plus their chips equals 1000 times their
\* number.
C35_ChipConservation ==
  \A r \in DOMAIN rooms :
    /\ rooms[r].pot = BetsOf(r)
    /\ rooms[r].pot + ChipsOf(r) = StartingChips * Len(getPlayersByRoomId(Store, r))

\* C36: every delta handlePlayerAction passes to updatePlayerBet is >= 0:
\* no successful call, raise or all-in increases the acting player's chips,
\* decreases the player's currentBet or decreases the pot.
C36_BetDeltasNonNegative ==
  \A s \in Sockets, data \in ActionPayloads :
    Seated(s) =>
      LET p == PlayerOf(s)
          r == RoomOf(s)
          result == handlePlayerAction(Store, s, data.action, data.amount)
      IN result.success =>
           /\ \A k \in 1..Len(result.bets) : result.bets[k] >= 0
           /\ result.st.players[p].chips <= players[p].chips
           /\ result.st.players[p].currentBet >= players[p].currentBet
           /\ result.st.rooms[r].pot >= rooms[r].pot

\* The live rooms whose player list holds a record of connection s.
RoomsSeating(s) ==
  {r \in DOMAIN rooms :
     \E k \in 1..Len(getPlayersByRoomId(Store, r)) :
       players[getPlayersByRoomId(Store, r)[k]].socketId = s}

\* C37: the lookups of the store agree: each connection id has at most one
\* player record, the lookup by a stored player's connection id returns
\* that player, and a connection is seated in at most one room.
C37_LookupsConsistent ==
  /\ \A p1 \in DOMAIN players, p2 \in DOMAIN players :
       p1 # p2 => players[p1].socketId # players[p2].socketId
  /\ \A p \in DOMAIN players : getPlayerBySocketId(Store, players[p].socketId) = <<p>>
  /\ \A s \in Sockets : Cardinality(RoomsSeating(s)) <= 1

\* C38: once a connection's leave-room has succeeded, the connection is no
\* longer in the broadcast group of the room it left, so no later event of
\* that room, or of a later room with the same code, reaches it unless it
\* joins again.
C38_LeaverOutOfGroup ==
  [][\A s \in Sockets :
       (Seated(s) /\ leaveRoom(Store, s).success /\ LeaveRoomIntent(s)) =>
         CodeKey(rooms[RoomOf(s)].code) \notin groups'[s]]_vars

\* The hands of the players `seated`, in that order, followed by `rest`.
RECURSIVE HandsThen(_, _, _)
HandsThen(st, seated, rest) ==
  IF seated = <<>> THEN rest
  ELSE st.players[Head(seated)].hand[1] \o HandsThen(st, Tail(seated), rest)

\* C39: dealCards deals from the head of the shuffled deck in player-list
\* order: the i-th seated player (0-based) receives cards 4i..4i+3, the
\* stored remaining deck is the suffix from index 4n, the hands are
\* pairwise disjoint, and the hands with the remaining deck are exactly the
\* 52 cards of the fresh deck, none duplicated or lost.
C39_DealOrder ==
  \A r \in DOMAIN rooms, rnd \in RandomDraws :
    LET result == dealCards(Store, r, rnd)
        seated == getPlayersByRoomId(Store, r)
        n == Len(seated)
        deck == createDeck(rnd)
        hand(i) == result.st.players[seated[i + 1]].hand[1]
    IN result.success =>
         /\ \A i \in 0..(n - 1) :
              /\ result.st.players[seated[i + 1]].hand # <<>>
              /\ hand(i) = [k \in 1..4 |-> deck[4 * i + k]]
         /\ result.st.rooms[r].deck = <<[k \in 1..(52 - 4 * n) |-> deck[4 * n + k]]>>
         /\ \A i, j \in 0..(n - 1) :
              i # j => {hand(i)[k] : k \in 1..4} \cap {hand(j)[k] : k \in 1..4} = {}
         /\ LET dealt == HandsThen(result.st, seated, result.st.rooms[r].deck[1]) IN
              /\ Len(dealt) = 52
              /\ {dealt[k] : k \in 1..Len(dealt)} = {OrderedDeck[k] : k \in 1..52}

\* A room of two has been dealt from a deck the shuffle has reordered: the
\* second player holds its cards 4..7 and the room keeps the last 44.
C39_Witness ==
  \E r \in DOMAIN rooms, rnd \in RandomDraws :
    LET seated == getPlayersByRoomId(Store, r)
        deck == shuffleDeck(OrderedDeck, rnd)
    IN /\ deck # OrderedDeck
       /\ Len(seated) = 2
       /\ players[seated[1]].hand = <<SubSeq(deck, 1, 4)>>
       /\ players[seated[2]].hand = <<SubSeq(deck, 5, 8)>>
       /\ rooms[r].deck = <<SubSeq(deck, 9, 52)>>

====
